---- MODULE Spec2Model ----
(***************************************************************************)
(* Verification model of novampires-go: the input manager                  *)
(* (internal/engine/input/manager.go), the player input component          *)
(* (internal/engine/entity/player_input.go), the entity base, the angle    *)
(* utility of package common, the camera                                   *)
(* (internal/engine/camera/camera.go, its first copy, lines 1-282), the    *)
(* key binding editor (internal/engine/input/keybind_editor.go), the debug *)
(* manager (internal/engine/debug/manager.go), Game.Update of              *)
(* unnamed/part_012, and of the older game in src/main.go the two loops    *)
(* (gameLoop and main) and resolveCollisions.                              *)
(*                                                                         *)
(* Numbers.  float64 lengths (positions, velocities, aim and stick         *)
(* vectors) are fixed-point integers with Scale units per 1.0; the inputs  *)
(* the specifications enumerate are chosen so that every operation on them *)
(* is exact, and a step whose arithmetic would round is not taken          *)
(* (EaseIsExact, MoveIsExact, UpdateIsExact).  Angles are integers with Pi *)
(* units per half turn, fine enough for EaseDepth eased turns in a row to  *)
(* be exact.  The result of GetMovementVector keeps its square root        *)
(* symbolic (see Surd).                                                    *)
(***************************************************************************)
EXTENDS Integers, Sequences, FiniteSets, TLC

VARIABLES
    bindings,       \* Manager.bindings: map[InputID]Action
    keysDown,       \* ebiten: keys / gamepad buttons pressed in this tick
    keysPrev,       \* ebiten/inpututil: keys / buttons pressed in the previous tick
    edits,          \* number of Bind / Unbind / Rebind calls made so far
    lastCall,       \* the most recent Bind / Unbind / Rebind call and the map it found
    gamepadIDs,     \* ebiten.AppendGamepadIDs(nil): the connected gamepads
    stickLeft,      \* left stick of the first gamepad, <<horizontal, vertical>>
    moveVec,        \* what the last GetMovementVector call returned
    stickRight,     \* right stick of the first gamepad, <<horizontal, vertical>>
    mouseWorld,     \* Manager.GetMousePositionWorld(): <<x, y>>, integers
    entity,         \* entity.Entity: Position, Velocity, Rotation
    playerInput,    \* entity.PlayerInput: its state fields
    lastTick,       \* the last call on the player and what its updateAiming did
    drive,          \* the movement vector of the last updateMovement call and
                    \* the number of calls in a row that read this same vector
    angleCall,      \* the last NormalizeAngle call: its argument and its result
    camera,         \* camera.Camera: pos, target, zoom, rotation, visibleArea
                    \* and its config's Bounds
    cameraCall,     \* the last call on the camera and its argument
    loop,           \* src/main.go (second copy): the logic goroutine, the render
                    \* loop, the global gameState and the channel between them
    device,         \* input.Manager: usingGamepad, lastMouseX, lastMouseY, and
                    \* the cursor position its last Update polled
    swarm,          \* src/main.go (first copy): the enemies' positions and the
                    \* pairs the last resolveCollisions went through
    editor,         \* input.KeyBindingEditorWindow: listening, rebindMode,
                    \* selectedAction, oldKey, and the click of its last Draw
    debugManager    \* debug.Manager: enabled, the windows by name with their
                    \* open flags, whether a call panicked, and the last call

inputVars == <<bindings, keysDown, keysPrev, edits, lastCall>>

moveVars == <<gamepadIDs, stickLeft, moveVec>>

playerVars == <<stickRight, mouseWorld, entity, playerInput, lastTick, drive>>

extVars == <<loop, device, swarm, editor, debugManager>>

libVars == <<angleCall, camera, cameraCall, extVars>>

vars == <<inputVars, moveVars, playerVars, libVars>>

----------------------------------------------------------------------------
(* Bounds of the model *)

MaxHeld == 2        \* physical inputs held at the same time in SpecInput
MaxEdits == 1       \* Bind / Unbind / Rebind calls in one behaviour of SpecInput
MaxTargets == 2     \* length of the target list handed to Player.Update
EaseDepth == 2      \* eased turns in a row whose angle the angle unit keeps exact
MaxHold == 12       \* updateMovement calls in a row that drive counts
MaxTurns == 2       \* full turns either side of 0 handed to NormalizeAngle
MaxWalk == 2        \* how far the player of src/main.go walks from its start
MaxRun == 8         \* how far from its start the player of SpecWalk gets
MaxEnemies == 3     \* enemies handed to resolveCollisions

----------------------------------------------------------------------------
(* Fixed-point float64: Scale units per 1.0 *)

Scale == 100

Abs(x) == IF x < 0 THEN -x ELSE x

\* a / b, rounded to the nearest unit when b does not divide a
RoundDiv(a, b) ==
    IF (a < 0) = (b < 0) THEN (2 * Abs(a) + Abs(b)) \div (2 * Abs(b))
    ELSE -((2 * Abs(a) + Abs(b)) \div (2 * Abs(b)))

\* a * b and a / b of two fixed-point numbers
Mul(a, b) == RoundDiv(a * b, Scale)

Div(a, b) == RoundDiv(a * Scale, b)

\* math.Sqrt of a fixed-point number given its square in Scale * Scale units;
\* exact on the perfect squares the specifications use, rounded down otherwise
RECURSIVE SqrtBetween(_, _, _)
SqrtBetween(sq, lo, hi) ==
    IF lo >= hi THEN lo
    ELSE CHOOSE root \in {IF mid * mid <= sq THEN SqrtBetween(sq, mid, hi)
                          ELSE SqrtBetween(sq, lo, mid - 1) :
                              mid \in {(lo + hi + 1) \div 2}} : TRUE

SqrtOfSquare(sq) ==
    CHOOSE root \in {IF square = 0 THEN 0 ELSE SqrtBetween(square, 0, 46340) :
                         square \in {sq}} : TRUE

\* A vector whose components are X / sqrt(r) and Y / sqrt(r): the quotient by
\* a math.Sqrt that is not a fixed-point number is kept symbolic.  r = 1 is a
\* plain fixed-point vector.
Surd(x, y, r) == [X |-> x, Y |-> y, r |-> r]

Plain(x, y) == Surd(x, y, 1)

----------------------------------------------------------------------------
(* common.Action and input.InputID *)

Actions ==
    {"ActionMoveUp", "ActionMoveDown", "ActionMoveLeft", "ActionMoveRight",
     "ActionAutoAttack", "ActionUseAbility1", "ActionUseAbility2",
     "ActionUseAbility3", "ActionPause", "ActionToggleDebug",
     "ActionInteract", "ActionMenu", "ActionTogglePlayerDebug",
     "ActionToggleInputDebug", "ActionToggleBindingEditor"}

\* The zero value of Action (iota starts at ActionMoveUp): what a lookup of a
\* missing key in map[InputID]Action returns.
ZeroAction == "ActionMoveUp"

KeyboardKey(k) == [kind |-> "KeyboardKey", mod |-> "", key |-> k]

GamepadButton(b) == [kind |-> "GamepadButton", mod |-> "", key |-> b]

ComboKey(m, k) == [kind |-> "ComboKey", mod |-> m, key |-> k]

\* setupDefaultBindings, restricted to the physical inputs of the model.
DefaultBindingPairs ==
    { <<KeyboardKey("KeyW"), "ActionMoveUp">>,
      <<KeyboardKey("KeyS"), "ActionMoveDown">>,
      <<KeyboardKey("KeyA"), "ActionMoveLeft">>,
      <<KeyboardKey("KeyD"), "ActionMoveRight">>,
      <<KeyboardKey("KeySpace"), "ActionAutoAttack">>,
      <<KeyboardKey("KeyUp"), "ActionMoveUp">>,
      <<KeyboardKey("KeyDown"), "ActionMoveDown">>,
      <<KeyboardKey("KeyLeft"), "ActionMoveLeft">>,
      <<KeyboardKey("KeyRight"), "ActionMoveRight">>,
      <<GamepadButton("PadRightBottom"), "ActionAutoAttack">>,
      <<ComboKey("KeyControl", "KeyP"), "ActionTogglePlayerDebug">> }

setupDefaultBindings ==
    [id \in {p[1] : p \in DefaultBindingPairs} |->
        (CHOOSE p \in DefaultBindingPairs : p[1] = id)[2]]

----------------------------------------------------------------------------
(* Manager: binding mutation *)

\* m.bindings[input] of Go: the zero value when the key is missing.
Lookup(b, input) == IF input \in DOMAIN b THEN b[input] ELSE ZeroAction

Bind(b, input, action) ==
    [i \in (DOMAIN b) \cup {input} |-> IF i = input THEN action ELSE b[i]]

Unbind(b, input) == [i \in (DOMAIN b) \ {input} |-> b[i]]

\* Rebind that forgets to remove the old input.
Rebind_KeepsOld(b, oldInput, newInput) ==
    Bind(b, newInput, Lookup(b, oldInput))

Rebind(b, oldInput, newInput) ==
    LET binding == Lookup(b, oldInput)
    IN  Bind(Unbind(b, oldInput), newInput, binding)

----------------------------------------------------------------------------
(* ebiten / inpututil raw device queries *)

IsKeyPressed(k) == k \in keysDown

IsKeyJustPressed(k) == k \in keysDown /\ k \notin keysPrev

IsKeyJustReleased(k) == k \notin keysDown /\ k \in keysPrev

----------------------------------------------------------------------------
(* Manager: action queries *)

isInputActive(id) ==
    CASE id.kind = "KeyboardKey" -> IsKeyPressed(id.key)
      [] id.kind = "GamepadButton" -> IsKeyPressed(id.key)
      [] id.kind = "ComboKey" -> IsKeyPressed(id.mod) /\ IsKeyPressed(id.key)
      [] OTHER -> FALSE

isInputJustPressed(id) ==
    CASE id.kind = "KeyboardKey" -> IsKeyJustPressed(id.key)
      [] id.kind = "GamepadButton" -> IsKeyJustPressed(id.key)
      [] id.kind = "ComboKey" ->
            \/ IsKeyPressed(id.mod) /\ IsKeyJustPressed(id.key)
            \/ IsKeyPressed(id.key) /\ IsKeyJustPressed(id.mod)
      [] OTHER -> FALSE

isInputJustReleased(id) ==
    CASE id.kind = "KeyboardKey" -> IsKeyJustReleased(id.key)
      [] id.kind = "GamepadButton" -> IsKeyJustReleased(id.key)
      [] id.kind = "ComboKey" ->
            LET wasPressedPreviousFrame ==
                    IsKeyJustReleased(id.key) \/ IsKeyJustReleased(id.mod)
                wasComboActive ==
                    \/ IsKeyJustReleased(id.key) /\ IsKeyPressed(id.mod)
                    \/ IsKeyJustReleased(id.mod) /\ IsKeyPressed(id.key)
            IN  wasPressedPreviousFrame /\ wasComboActive
      [] OTHER -> FALSE

\* IsPressed that forgets to compare the bound action.
IsPressed_AnyBinding(action) ==
    \E input \in DOMAIN bindings : isInputActive(input)

IsPressed(action) ==
    \E input \in DOMAIN bindings :
        bindings[input] = action /\ isInputActive(input)

JustPressed(action) ==
    \E input \in DOMAIN bindings :
        bindings[input] = action /\ isInputJustPressed(input)

JustReleased(action) ==
    \E input \in DOMAIN bindings :
        bindings[input] = action /\ isInputJustReleased(input)

NoCall == [op |-> "none", old |-> KeyboardKey(""), new |-> KeyboardKey(""),
           action |-> ZeroAction, before |-> setupDefaultBindings]

----------------------------------------------------------------------------
(* Manager: movement vector *)

\* DefaultConfig().Deadzone = 0.2
Deadzone == 20

\* normalizeVector that returns its argument unchanged.
normalizeVector_Raw(x, y) == Plain(x, y)

normalizeVector(x, y) ==
    IF x # 0 /\ y # 0
    THEN LET lengthSq == x * x + y * y
         IN  IF lengthSq > Scale * Scale        \* length > 1
             THEN IF SqrtOfSquare(lengthSq) * SqrtOfSquare(lengthSq) = lengthSq
                  THEN Plain(Div(x, SqrtOfSquare(lengthSq)),
                             Div(y, SqrtOfSquare(lengthSq)))
                  ELSE Surd(Scale * x, Scale * y, lengthSq)
             ELSE Plain(x, y)
    ELSE Plain(x, y)

GetMovementVector ==
    LET dy == (IF IsPressed("ActionMoveDown") THEN Scale ELSE 0)
              - (IF IsPressed("ActionMoveUp") THEN Scale ELSE 0)
        dx == (IF IsPressed("ActionMoveRight") THEN Scale ELSE 0)
              - (IF IsPressed("ActionMoveLeft") THEN Scale ELSE 0)
    IN  IF dx # 0 \/ dy # 0
        THEN normalizeVector(dx, dy)
        ELSE IF gamepadIDs # <<>>
        THEN LET sx == stickLeft[1]
                 sy == stickLeft[2]
             IN  CHOOSE vec \in
                     {IF magnitude < Deadzone
                      THEN Plain(0, 0)
                      ELSE LET adjustedMagnitude ==
                                   Div(magnitude - Deadzone, Scale - Deadzone)
                           IN  Plain(Mul(Div(sx, magnitude), adjustedMagnitude),
                                     Mul(Div(sy, magnitude), adjustedMagnitude)) :
                          magnitude \in {SqrtOfSquare(sx * sx + sy * sy)}} : TRUE
        ELSE Plain(0, 0)

----------------------------------------------------------------------------
(* common: angles and vectors *)

\* Angle unit: Pi units per half turn.  RotationSpeed = 0.15 = 3/20, so an
\* eased turn divides the angle grid by 20; the bearings of the model are
\* multiples of Pi / 4.
Pi == 4 * 20 ^ EaseDepth

NormalizeAngle(angle) == angle - 2 * Pi * ((angle + Pi) \div (2 * Pi))

\* math.Atan2(y, x) on the eight compass directions and on (0, 0), where Go
\* returns 0; the specifications enumerate no other direction.
Atan2(y, x) ==
    CASE y = 0 /\ x >= 0 -> 0
      [] y = 0 /\ x < 0 -> Pi
      [] x = 0 /\ y > 0 -> Pi \div 2
      [] x = 0 /\ y < 0 -> -(Pi \div 2)
      [] x > 0 /\ y = x -> Pi \div 4
      [] x > 0 /\ y = -x -> -(Pi \div 4)
      [] x < 0 /\ y = -x -> 3 * (Pi \div 4)
      [] x < 0 /\ y = x -> -(3 * (Pi \div 4))

\* no NormalizeAngle call made yet
InitAngle == angleCall = [angle |-> 0, result |-> 0, op |-> "none"]

\* math.Cos and math.Sin on the whole quarter turns
Cos(angle) ==
    CASE NormalizeAngle(angle) = 0 -> Scale
      [] NormalizeAngle(angle) = Pi \div 2 -> 0
      [] NormalizeAngle(angle) = -Pi -> -Scale
      [] NormalizeAngle(angle) = -(Pi \div 2) -> 0

Sin(angle) ==
    CASE NormalizeAngle(angle) = 0 -> 0
      [] NormalizeAngle(angle) = Pi \div 2 -> Scale
      [] NormalizeAngle(angle) = -Pi -> 0
      [] NormalizeAngle(angle) = -(Pi \div 2) -> -Scale

Vector2(x, y) == [X |-> x, Y |-> y]

Add(v, v2) == Vector2(v.X + v2.X, v.Y + v2.Y)

Sub(v, v2) == Vector2(v.X - v2.X, v.Y - v2.Y)

ScaleBy(v, s) == Vector2(Mul(v.X, s), Mul(v.Y, s))

MagnitudeSquared(v) == v.X * v.X + v.Y * v.Y

Magnitude(v) == SqrtOfSquare(MagnitudeSquared(v))

Normalized(v) ==
    LET mag == Magnitude(v)
    IN  IF mag = 0 THEN Vector2(0, 0)
        ELSE Vector2(Div(v.X, mag), Div(v.Y, mag))

----------------------------------------------------------------------------
(* entity.PlayerInput *)

\* DefaultPlayerInputConfig
MaxSpeed == 500

Acceleration == 100

Deceleration == 50

RotationSpeed == 15

AutoAimRange == 40000

\* Manager.GetGamepadAim
GetGamepadAim(ids, stick) ==
    IF ids # <<>> /\ (Abs(stick[1]) >= Deadzone \/ Abs(stick[2]) >= Deadzone)
    THEN [dx |-> stick[1], dy |-> stick[2], ok |-> TRUE]
    ELSE [dx |-> 0, dy |-> 0, ok |-> FALSE]

\* PlayerInput.GetAimVector: the PlayerInput after the call and the vector
GetAimVector(p, ids, stick, mouse, entityPos) ==
    LET mx == mouse[1]
        my == mouse[2]
        pad == GetGamepadAim(ids, stick)
    IN  IF pad.ok
        THEN [p |-> [p EXCEPT !.usingGamepad = TRUE,
                              !.lastAimDx = pad.dx, !.lastAimDy = pad.dy],
              dx |-> pad.dx, dy |-> pad.dy]
        ELSE IF mx # p.lastMouseX \/ my # p.lastMouseY
        THEN LET mousePos == Vector2(mx * Scale, my * Scale)
                 toMouse == Sub(mousePos, entityPos)
                 aimDirection ==
                     IF MagnitudeSquared(toMouse) > 0 THEN Normalized(toMouse)
                     ELSE Vector2(p.lastAimDx, p.lastAimDy)
             IN  [p |-> [p EXCEPT !.usingGamepad = FALSE,
                                  !.lastMouseX = mx, !.lastMouseY = my,
                                  !.lastAimDx = aimDirection.X,
                                  !.lastAimDy = aimDirection.Y],
                  dx |-> aimDirection.X, dy |-> aimDirection.Y]
        ELSE [p |-> p, dx |-> p.lastAimDx, dy |-> p.lastAimDy]

\* the value of a movement vector component X / sqrt(r) as a fixed-point
\* number (rounded when r is not a square)
Component(x, r) == IF r = 1 THEN x ELSE Div(x, SqrtOfSquare(r * Scale * Scale))

\* updateMovement without the cap at targetSpeed.
updateMovement_NoCap(velocity, m) ==
    LET inputVec == Vector2(Component(m.X, m.r), Component(m.Y, m.r))
        inputMagnitude == SqrtOfSquare((m.X * m.X + m.Y * m.Y) \div m.r)
    IN  IF inputMagnitude > 0
        THEN Add(velocity, ScaleBy(inputVec, Acceleration))
        ELSE LET currentSpeed == Magnitude(velocity)
             IN  IF currentSpeed > 0
                 THEN LET newSpeed ==
                              IF currentSpeed - Deceleration > 0
                              THEN currentSpeed - Deceleration ELSE 0
                      IN  IF newSpeed > 0
                          THEN ScaleBy(Normalized(velocity), newSpeed)
                          ELSE Vector2(0, 0)
                 ELSE velocity

\* updateMovement whose deceleration has no floor at 0.
updateMovement_NoFloor(velocity, m) ==
    LET inputVec == Vector2(Component(m.X, m.r), Component(m.Y, m.r))
        inputMagnitude == SqrtOfSquare((m.X * m.X + m.Y * m.Y) \div m.r)
    IN  IF inputMagnitude > 0
        THEN LET targetSpeed == Mul(MaxSpeed, inputMagnitude)
                 accelerated == Add(velocity, ScaleBy(inputVec, Acceleration))
                 currentSpeed == Magnitude(accelerated)
             IN  IF currentSpeed > targetSpeed
                 THEN ScaleBy(Normalized(accelerated), targetSpeed)
                 ELSE accelerated
        ELSE LET currentSpeed == Magnitude(velocity)
             IN  IF currentSpeed > 0
                 THEN ScaleBy(Normalized(velocity), currentSpeed - Deceleration)
                 ELSE velocity

\* PlayerInput.updateMovement: the new velocity for movement vector m
updateMovement(velocity, m) ==
    LET inputVec == Vector2(Component(m.X, m.r), Component(m.Y, m.r))
        inputMagnitude == SqrtOfSquare((m.X * m.X + m.Y * m.Y) \div m.r)
    IN  IF inputMagnitude > 0
        THEN LET targetSpeed == Mul(MaxSpeed, inputMagnitude)
                 accelerated == Add(velocity, ScaleBy(inputVec, Acceleration))
                 currentSpeed == Magnitude(accelerated)
             IN  IF currentSpeed > targetSpeed
                 THEN ScaleBy(Normalized(accelerated), targetSpeed)
                 ELSE accelerated
        ELSE LET currentSpeed == Magnitude(velocity)
             IN  IF currentSpeed > 0
                 THEN LET newSpeed ==
                              IF currentSpeed - Deceleration > 0
                              THEN currentSpeed - Deceleration ELSE 0
                      IN  IF newSpeed > 0
                          THEN ScaleBy(Normalized(velocity), newSpeed)
                          ELSE Vector2(0, 0)
                 ELSE velocity

IsSquare(sq) == \E root \in {SqrtOfSquare(sq)} : root * root = sq

\* v.Normalized().Scale(s) loses nothing in fixed point
ScaledUnitIsExact(v, s) ==
    \E mag \in {Magnitude(v)} :
        /\ mag * mag = MagnitudeSquared(v)
        /\ (v.X * Scale) % mag = 0 /\ (v.Y * Scale) % mag = 0
        /\ (Div(v.X, mag) * s) % Scale = 0 /\ (Div(v.Y, mag) * s) % Scale = 0

\* every operation of updateMovement(velocity, m) is exact in fixed point
MoveIsExact(velocity, m) ==
    /\ m.r = 1
    /\ (m.X * Acceleration) % Scale = 0 /\ (m.Y * Acceleration) % Scale = 0
    /\ \E inputMagnitude \in {SqrtOfSquare(m.X * m.X + m.Y * m.Y)} :
       \E targetSpeed \in {Mul(MaxSpeed, inputMagnitude)} :
           /\ inputMagnitude * inputMagnitude = m.X * m.X + m.Y * m.Y
           /\ (MaxSpeed * inputMagnitude) % Scale = 0
           /\ IF inputMagnitude > 0
              THEN \E accelerated \in
                       {Add(velocity, ScaleBy(Vector2(m.X, m.Y), Acceleration))} :
                   \E currentSpeed \in {Magnitude(accelerated)} :
                       /\ currentSpeed * currentSpeed = MagnitudeSquared(accelerated)
                       /\ currentSpeed > targetSpeed
                              => ScaledUnitIsExact(accelerated, targetSpeed)
              ELSE \E currentSpeed \in {Magnitude(velocity)} :
                       /\ currentSpeed * currentSpeed = MagnitudeSquared(velocity)
                       /\ currentSpeed > Deceleration
                              => ScaledUnitIsExact(velocity,
                                                   currentSpeed - Deceleration)

\* the scan of updateAiming with <= in place of <.
RECURSIVE closestFrom_Inclusive(_, _, _, _, _)
closestFrom_Inclusive(targets, entityPos, i, closestDistSq, closestTarget) ==
    IF i > Len(targets) THEN closestTarget
    ELSE LET distSq == MagnitudeSquared(Sub(targets[i].Pos, entityPos))
         IN  IF distSq <= closestDistSq
             THEN closestFrom_Inclusive(targets, entityPos, i + 1, distSq, i)
             ELSE closestFrom_Inclusive(targets, entityPos, i + 1,
                                        closestDistSq, closestTarget)

\* the scan of updateAiming from index i on: the index of closestTarget, 0 for nil
RECURSIVE closestFrom(_, _, _, _, _)
closestFrom(targets, entityPos, i, closestDistSq, closestTarget) ==
    IF i > Len(targets) THEN closestTarget
    ELSE LET distSq == MagnitudeSquared(Sub(targets[i].Pos, entityPos))
         IN  IF distSq < closestDistSq
             THEN closestFrom(targets, entityPos, i + 1, distSq, i)
             ELSE closestFrom(targets, entityPos, i + 1,
                              closestDistSq, closestTarget)

\* the eased turn that snaps onto the target bearing.
easedRotation_Snap(currentRotation, targetRotation) ==
    NormalizeAngle(currentRotation
                   + NormalizeAngle(targetRotation - currentRotation))

\* lines 187-190 of updateAiming: the rotation after the eased turn
easedRotation(currentRotation, targetRotation) ==
    LET angleDiff == NormalizeAngle(targetRotation - currentRotation)
        rotationStep == Mul(angleDiff, RotationSpeed)
    IN  NormalizeAngle(currentRotation + rotationStep)

\* the product angleDiff * RotationSpeed is a whole number of angle units
EaseIsExact(currentRotation, targetRotation) ==
    (NormalizeAngle(targetRotation - currentRotation) * RotationSpeed) % Scale = 0

\* PlayerInput.updateAiming: the rotation and the PlayerInput after the call,
\* the branch taken, the index of closestTarget, and whether the angle unit
\* represents the new rotation exactly
updateAiming(p, e, ids, stick, mouse) ==
    IF p.autoAim /\ Len(p.currentTargets) > 0
    THEN LET entityPos == e.Position
             closestTarget ==
                 closestFrom(p.currentTargets, entityPos, 1,
                             AutoAimRange * AutoAimRange, 0)
         IN  IF closestTarget # 0
             THEN LET aimDirection ==
                          Sub(p.currentTargets[closestTarget].Pos, entityPos)
                      targetRotation == Atan2(aimDirection.Y, aimDirection.X)
                  IN  [Rotation |-> easedRotation(e.Rotation, targetRotation),
                       exact |-> EaseIsExact(e.Rotation, targetRotation),
                       p |-> p, mode |-> "auto", closest |-> closestTarget]
             ELSE [Rotation |-> e.Rotation, exact |-> TRUE,
                   p |-> p, mode |-> "auto", closest |-> 0]
    ELSE LET aim == GetAimVector(p, ids, stick, mouse, e.Position)
         IN  [Rotation |-> IF aim.dx # 0 \/ aim.dy # 0
                           THEN Atan2(aim.dy, aim.dx) ELSE e.Rotation,
              exact |-> TRUE,
              p |-> aim.p, mode |-> "manual", closest |-> 0]

----------------------------------------------------------------------------
(* player.Player: one frame of the game *)

\* the initialPos handed to NewPlayer: the world origin, where the cursor
\* starts, is 5 below the player
InitialPos == Vector2(0, -5 * Scale)

NewEntity(position) ==
    [Position |-> position, Velocity |-> Vector2(0, 0), Rotation |-> 0]

NewPlayerInput ==
    [usingGamepad |-> FALSE, lastMouseX |-> 0, lastMouseY |-> 0,
     lastAimDx |-> 0, lastAimDy |-> 0, currentTargets |-> <<>>,
     autoAim |-> TRUE]

InitPlayer ==
    /\ stickRight = <<0, 0>>
    /\ mouseWorld = <<0, 0>>
    /\ entity = NewEntity(InitialPos)
    /\ playerInput = NewPlayerInput
    /\ lastTick = [op |-> "none", mode |-> "none", closest |-> 0]
    /\ drive = [move |-> Plain(0, 0), held |-> 0]

\* One frame: the devices move to the state (down, stick, mouse), then
\* Player.Update(targets) runs: UpdateTargets, GetAimDirection, Entity.Update
\* (position, then ProcessInput: updateMovement, updateAiming, the auto-aim
\* toggle and updateAnimation's GetAimDirection).
PlayerStep(down, stick, mouse, targets) ==
    /\ keysPrev' = keysDown
    /\ keysDown' = down
    /\ stickRight' = stick
    /\ mouseWorld' = mouse
    /\ UNCHANGED <<bindings, edits, lastCall, moveVars, drive>>
    /\ \E p0 \in {[playerInput EXCEPT !.currentTargets = targets]} :
       \E look \in {GetAimVector(p0, gamepadIDs, stick, mouse, entity.Position)} :
       \E e1 \in {[entity EXCEPT !.Position = Add(entity.Position, entity.Velocity)]} :
       \E m \in {GetMovementVector'} :
       \E e2 \in {[e1 EXCEPT !.Velocity = updateMovement(e1.Velocity, m)]} :
       \E aiming \in {updateAiming(look.p, e2, gamepadIDs, stick, mouse)} :
       \E e3 \in {[e2 EXCEPT !.Rotation = aiming.Rotation]} :
       \E p3 \in {IF JustPressed("ActionAutoAttack")'
                   THEN [aiming.p EXCEPT !.autoAim = ~aiming.p.autoAim]
                   ELSE aiming.p} :
       \E anim \in {GetAimVector(p3, gamepadIDs, stick, mouse, e3.Position)} :
           /\ aiming.exact
           /\ MoveIsExact(e1.Velocity, m)
           /\ entity' = e3
           /\ playerInput' = anim.p
           /\ lastTick' = [op |-> "Update", mode |-> aiming.mode,
                           closest |-> aiming.closest]

\* a frame of the player in which nothing else of the game changes
PlayerUpdate(down, stick, mouse, targets) ==
    /\ PlayerStep(down, stick, mouse, targets)
    /\ UNCHANGED libVars

\* PlayerInput.SetAutoAim
SetAutoAim(enabled) ==
    /\ playerInput' = [playerInput EXCEPT !.autoAim = enabled]
    /\ lastTick' = [lastTick EXCEPT !.op = "SetAutoAim"]
    /\ UNCHANGED <<inputVars, moveVars, stickRight, mouseWorld, entity, drive,
                   libVars>>

\* TargetInfo at an offset from the player's start
Target(id, dx, dy, radius, priority) ==
    [ID |-> id, Pos |-> Add(InitialPos, Vector2(dx * Scale, dy * Scale)),
     Vel |-> Vector2(id * Scale, 0), Radius |-> radius * Scale,
     Priority |-> priority * Scale]

\* near and unimportant (up and to the right); farther and important (to the
\* left); exactly at the range; on top of the player
Candidates ==
    { Target(1, 50, -50, 15, 1), Target(2, -150, 0, 40, 9),
      Target(3, 0, 400, 15, 9), Target(4, 0, 0, 15, 1) }

\* the lists of at most n distinct candidates
RECURSIVE ListsUpTo(_)
ListsUpTo(n) ==
    IF n = 0 THEN {<<>>}
    ELSE LET shorter == ListsUpTo(n - 1)
             fresh == {x \in shorter \X Candidates :
                          \A i \in 1..Len(x[1]) : x[1][i] # x[2]}
         IN  shorter \cup {Append(x[1], x[2]) : x \in fresh}

TargetLists == ListsUpTo(MaxTargets)

----------------------------------------------------------------------------
(* camera.Camera *)

Rectangle(x, y, w, h) == [Pos |-> Vector2(x, y), Size |-> Vector2(w, h)]

\* a *Vector2 or *Rectangle: nil, or a pointer to value
Nil(value) == [set |-> FALSE, at |-> value]

Ptr(value) == [set |-> TRUE, at |-> value]

MathMax(a, b) == IF a > b THEN a ELSE b

MathMin(a, b) == IF a < b THEN a ELSE b

\* DefaultConfig: Smoothing and ViewportSize (Bounds is kept in the camera)
DefaultConfig ==
    [Smoothing |-> Scale \div 10,
     ViewportSize |-> Vector2(1600 * Scale, 900 * Scale)]

\* the floor of SetZoom
MinZoom == 10

\* ebiten.GeoM: the affine map (x, y) -> (a x + b y + tx, c x + d y + ty)
GeoM == [a |-> Scale, b |-> 0, c |-> 0, d |-> Scale, tx |-> 0, ty |-> 0]

Translate(m, tx, ty) == [m EXCEPT !.tx = m.tx + tx, !.ty = m.ty + ty]

ScaleGeoM(m, x, y) ==
    [a |-> Mul(m.a, x), b |-> Mul(m.b, x), tx |-> Mul(m.tx, x),
     c |-> Mul(m.c, y), d |-> Mul(m.d, y), ty |-> Mul(m.ty, y)]

Rotate(m, theta) ==
    LET cos == Cos(theta)
        sin == Sin(theta)
    IN  [a |-> Mul(cos, m.a) - Mul(sin, m.c),
         b |-> Mul(cos, m.b) - Mul(sin, m.d),
         tx |-> Mul(cos, m.tx) - Mul(sin, m.ty),
         c |-> Mul(sin, m.a) + Mul(cos, m.c),
         d |-> Mul(sin, m.b) + Mul(cos, m.d),
         ty |-> Mul(sin, m.tx) + Mul(cos, m.ty)]

Apply(m, x, y) ==
    Vector2(Mul(m.a, x) + Mul(m.b, y) + m.tx, Mul(m.c, x) + Mul(m.d, y) + m.ty)

\* Camera.updateVisibleArea
updateVisibleArea(c) ==
    LET halfWidth == Div(DefaultConfig.ViewportSize.X, 2 * c.zoom)
        halfHeight == Div(DefaultConfig.ViewportSize.Y, 2 * c.zoom)
    IN  [c EXCEPT !.visibleArea =
            Rectangle(c.pos.X - halfWidth, c.pos.Y - halfHeight,
                      halfWidth * 2, halfHeight * 2)]

\* NewWithConfig, for a config with the default Smoothing and ViewportSize
NewWithConfig(bounds) ==
    updateVisibleArea(
        [pos |-> Vector2(0, 0), target |-> Nil(Vector2(0, 0)), bounds |-> bounds,
         zoom |-> Scale, rotation |-> 0, visibleArea |-> Rectangle(0, 0, 0, 0)])

\* clampToBounds that clamps between minX and maxX on every axis.
clampToBounds_NoCentre(c) ==
    LET bounds == c.bounds.at
        halfWidth == Div(DefaultConfig.ViewportSize.X, 2 * c.zoom)
        halfHeight == Div(DefaultConfig.ViewportSize.Y, 2 * c.zoom)
        minX == bounds.Pos.X + halfWidth
        maxX == bounds.Pos.X + bounds.Size.X - halfWidth
        minY == bounds.Pos.Y + halfHeight
        maxY == bounds.Pos.Y + bounds.Size.Y - halfHeight
    IN  IF ~c.bounds.set THEN c
        ELSE [c EXCEPT !.pos =
                 Vector2(MathMax(minX, MathMin(maxX, c.pos.X)),
                         MathMax(minY, MathMin(maxY, c.pos.Y)))]

\* Camera.clampToBounds
clampToBounds(c) ==
    LET bounds == c.bounds.at
        halfWidth == Div(DefaultConfig.ViewportSize.X, 2 * c.zoom)
        halfHeight == Div(DefaultConfig.ViewportSize.Y, 2 * c.zoom)
        minX == bounds.Pos.X + halfWidth
        maxX == bounds.Pos.X + bounds.Size.X - halfWidth
        minY == bounds.Pos.Y + halfHeight
        maxY == bounds.Pos.Y + bounds.Size.Y - halfHeight
    IN  IF ~c.bounds.set THEN c
        ELSE [c EXCEPT !.pos =
                 Vector2(IF halfWidth * 2 > bounds.Size.X
                         THEN bounds.Pos.X + bounds.Size.X \div 2
                         ELSE MathMax(minX, MathMin(maxX, c.pos.X)),
                         IF halfHeight * 2 > bounds.Size.Y
                         THEN bounds.Pos.Y + bounds.Size.Y \div 2
                         ELSE MathMax(minY, MathMin(maxY, c.pos.Y)))]

\* Camera.Update
CameraUpdate(c) ==
    IF ~c.target.set THEN c
    ELSE LET targetCenter == c.target.at
             moved == [c EXCEPT !.pos =
                          Vector2(c.pos.X + Mul(targetCenter.X - c.pos.X,
                                                DefaultConfig.Smoothing),
                                  c.pos.Y + Mul(targetCenter.Y - c.pos.Y,
                                                DefaultConfig.Smoothing))]
         IN  updateVisibleArea(IF c.bounds.set THEN clampToBounds(moved)
                               ELSE moved)

\* the smoothing step of Update is exact in fixed point
UpdateIsExact(c) ==
    c.target.set
        => /\ ((c.target.at.X - c.pos.X) * DefaultConfig.Smoothing) % Scale = 0
           /\ ((c.target.at.Y - c.pos.Y) * DefaultConfig.Smoothing) % Scale = 0

\* Camera.SetTarget
SetTarget(c, target) == [c EXCEPT !.target = target]

\* SetCenter that refreshes the visible area before it clamps.
SetCenter_ClampLast(c, pos) ==
    LET moved == updateVisibleArea([c EXCEPT !.pos = pos])
    IN  IF c.bounds.set THEN clampToBounds(moved) ELSE moved

\* Camera.SetCenter
SetCenter(c, pos) ==
    LET moved == [c EXCEPT !.pos = pos]
    IN  updateVisibleArea(IF c.bounds.set THEN clampToBounds(moved) ELSE moved)

\* SetZoom that refuses only a zoom of 0.
SetZoom_NonZero(c, zoom) ==
    updateVisibleArea([c EXCEPT !.zoom = IF zoom = 0 THEN MinZoom ELSE zoom])

\* Camera.SetZoom
SetZoom(c, zoom) == updateVisibleArea([c EXCEPT !.zoom = MathMax(MinZoom, zoom)])

\* Camera.SetRotation
SetRotation(c, radians) == [c EXCEPT !.rotation = radians]

\* Camera.GetViewport
GetViewport(c) == c.visibleArea

\* Camera.GetTransform
GetTransform(c) ==
    LET centred == Translate(GeoM, -c.pos.X, -c.pos.Y)
        zoomed == ScaleGeoM(centred, c.zoom, c.zoom)
        rotated == IF c.rotation # 0 THEN Rotate(zoomed, c.rotation) ELSE zoomed
    IN  Translate(rotated, DefaultConfig.ViewportSize.X \div 2,
                  DefaultConfig.ViewportSize.Y \div 2)

\* the matrix ScreenToWorld builds
InverseTransform(c) ==
    LET centred == Translate(GeoM, -(DefaultConfig.ViewportSize.X \div 2),
                             -(DefaultConfig.ViewportSize.Y \div 2))
        zoomed == ScaleGeoM(centred, Div(Scale, c.zoom), Div(Scale, c.zoom))
        rotated == IF c.rotation # 0 THEN Rotate(zoomed, -c.rotation) ELSE zoomed
    IN  Translate(rotated, c.pos.X, c.pos.Y)

\* ScreenToWorld that turns by +rotation, as GetTransform does.
ScreenToWorld_SameTurn(c, screenPos) ==
    LET centred == Translate(GeoM, -(DefaultConfig.ViewportSize.X \div 2),
                             -(DefaultConfig.ViewportSize.Y \div 2))
        zoomed == ScaleGeoM(centred, Div(Scale, c.zoom), Div(Scale, c.zoom))
        rotated == IF c.rotation # 0 THEN Rotate(zoomed, c.rotation) ELSE zoomed
    IN  Apply(Translate(rotated, c.pos.X, c.pos.Y), screenPos.X, screenPos.Y)

\* Camera.ScreenToWorld
ScreenToWorld(c, screenPos) ==
    Apply(InverseTransform(c), screenPos.X, screenPos.Y)

\* Camera.WorldToScreen
WorldToScreen(c, worldPos) == Apply(GetTransform(c), worldPos.X, worldPos.Y)

\* the zoom and the products with it lose nothing in fixed point
TransformIsExact(c) ==
    /\ (Scale * Scale) % c.zoom = 0
    /\ (c.pos.X * c.zoom) % Scale = 0
    /\ (c.pos.Y * c.zoom) % Scale = 0
    /\ ((DefaultConfig.ViewportSize.X \div 2) * Div(Scale, c.zoom)) % Scale = 0
    /\ ((DefaultConfig.ViewportSize.Y \div 2) * Div(Scale, c.zoom)) % Scale = 0

\* m.Apply(v) loses nothing in fixed point
ApplyIsExact(m, v) ==
    /\ (m.a * v.X) % Scale = 0 /\ (m.b * v.Y) % Scale = 0
    /\ (m.c * v.X) % Scale = 0 /\ (m.d * v.Y) % Scale = 0

NoCameraCall == [op |-> "none", zoom |-> 0]

----------------------------------------------------------------------------
(* main (src/main.go, lines 272-465): gameLoop and the render loop *)

\* main has made the channel and started gameLoop: the logic goroutine is at
\* its first statement, the render loop at its receive.  player and enemy
\* are the positions in the global gameState (one coordinate, one enemy),
\* received is the copy the channel handed over, drawn what was drawn last.
StartLoop ==
    [logic |-> "init", render |-> "receive", player |-> 0, enemy |-> 0,
     received |-> 0, drawn |-> [player |-> 0, enemy |-> 0]]

\* where an enemy spawns (randomPositionOffScreen)
EnemySpawn == -MaxWalk

\* gameLoop: gameState = initGameState()
gameLoopInit(l) ==
    [l EXCEPT !.logic = "movePlayer", !.player = 0, !.enemy = EnemySpawn]

\* gameLoop: gameState.player.pos.X += dx * speed * dt
gameLoopMovePlayer(l, dx) ==
    [l EXCEPT !.logic = "updateEnemies", !.player = l.player + dx]

\* gameLoop: e.Update() for the enemies, Enemy.Move towards gameState.player.pos
gameLoopUpdateEnemies(l) ==
    [l EXCEPT !.logic = "send",
              !.enemy = l.enemy + (IF l.player > l.enemy THEN 1
                                   ELSE IF l.player < l.enemy THEN -1 ELSE 0)]

\* gameStateCh <- gameState meets <-gameStateCh: the channel is unbuffered,
\* the GameState struct is copied, gameLoop goes on with its next iteration
sendGameState(l) ==
    [l EXCEPT !.logic = "movePlayer", !.render = "store",
              !.received = l.player]

\* main: gameState = (the value received)
mainStore(l) == [l EXCEPT !.render = "draw", !.player = l.received]

\* main: the camera target and the Draw calls read gameState.player.pos and
\* enemy.pos through the global gameState
mainDraw(l) ==
    [l EXCEPT !.render = "receive",
              !.drawn = [player |-> l.player, enemy |-> l.enemy]]

----------------------------------------------------------------------------
(* input.Manager: which device was used last *)

\* the gamepad buttons among the inputs of the model
PadButtons == {"PadRightBottom"}

\* NewManager: usingGamepad false, the last mouse position (0, 0)
NewDevice ==
    [usingGamepad |-> FALSE, lastMouseX |-> 0, lastMouseY |-> 0,
     cursor |-> <<0, 0>>, op |-> "none"]

\* Manager.updateGamepadState with the gamepads ids, the keys and buttons
\* down, the left stick of the gamepad and the cursor position
updateGamepadState(d, ids, down, stick, cursor) ==
    IF /\ ids # <<>>
       /\ \/ down \cap PadButtons # {}
          \/ Abs(stick[1]) >= Deadzone
          \/ Abs(stick[2]) >= Deadzone
    THEN [d EXCEPT !.usingGamepad = TRUE]
    ELSE LET afterMouse ==
                 IF cursor[1] # d.lastMouseX \/ cursor[2] # d.lastMouseY
                 THEN [d EXCEPT !.usingGamepad = FALSE,
                                !.lastMouseX = cursor[1],
                                !.lastMouseY = cursor[2]]
                 ELSE d
         IN  IF down \ PadButtons # {}
             THEN [afterMouse EXCEPT !.usingGamepad = FALSE]
             ELSE [afterMouse EXCEPT !.usingGamepad = d.usingGamepad]

\* Manager.IsUsingGamepad
IsUsingGamepad == device.usingGamepad

----------------------------------------------------------------------------
(* main (src/main.go, lines 1-271): resolveCollisions *)

\* the distance below which two enemies collide: a radius of 20 each
CollisionDistance == 40 * Scale

\* one pass of the inner loop body for enemies[i] and enemies[j]
resolvePair(enemies, i, j) ==
    LET enemy1 == enemies[i]
        enemy2 == enemies[j]
        distance == Magnitude(Sub(enemy1, enemy2))
    IN  IF distance < CollisionDistance
        THEN LET overlap == CollisionDistance - distance
                 raw == Sub(enemy1, enemy2)
                 direction == IF Magnitude(raw) > 0 THEN Normalized(raw)
                              ELSE raw
                 push == ScaleBy(direction, overlap \div 2)
             IN  [enemies EXCEPT ![i] = Add(enemy1, push),
                                 ![j] = Sub(enemy2, push)]
        ELSE enemies

\* the distance, the unit direction and the push of the pair are whole
\* numbers of the fixed-point unit
PairIsExact(enemies, i, j) ==
    LET raw == Sub(enemies[i], enemies[j])
        distance == Magnitude(raw)
    IN  (distance < CollisionDistance /\ distance > 0) =>
            /\ distance * distance = MagnitudeSquared(raw)
            /\ (raw.X * Scale) % distance = 0
            /\ (raw.Y * Scale) % distance = 0
            /\ (CollisionDistance - distance) % 2 = 0
            /\ (Normalized(raw).X * ((CollisionDistance - distance) \div 2))
                   % Scale = 0
            /\ (Normalized(raw).Y * ((CollisionDistance - distance) \div 2))
                   % Scale = 0

\* the two nested loops from the pair (i, j) on: the enemies at the end, the
\* pairs gone through with the positions before and after each, and whether
\* every pair was exact
RECURSIVE resolveFrom(_, _, _, _, _)
resolveFrom(enemies, i, j, pairs, exact) ==
    IF i > Len(enemies) THEN [enemies |-> enemies, pairs |-> pairs,
                              exact |-> exact]
    ELSE IF j > Len(enemies)
    THEN resolveFrom(enemies, i + 1, i + 2, pairs, exact)
    ELSE LET after == resolvePair(enemies, i, j)
         IN  resolveFrom(after, i, j + 1,
                         Append(pairs, [i |-> i, j |-> j,
                                        before1 |-> enemies[i],
                                        before2 |-> enemies[j],
                                        after1 |-> after[i],
                                        after2 |-> after[j]]),
                         exact /\ PairIsExact(enemies, i, j))

resolveCollisions(enemies) == resolveFrom(enemies, 1, 2, <<>>, TRUE)

\* where enemies are: two that overlap an enemy at the origin, one far away,
\* one exactly at the collision distance from the origin
EnemyPositions ==
    {Vector2(0, 0), Vector2(30 * Scale, 0), Vector2(18 * Scale, 24 * Scale),
     Vector2(100 * Scale, 0), Vector2(-40 * Scale, 0)}

----------------------------------------------------------------------------
(* input.KeyBindingEditorWindow *)

NoClick == [kind |-> "none", action |-> ZeroAction, input |-> KeyboardKey("")]

\* the Add button of an action's row
ClickAdd(action) == [kind |-> "Add", action |-> action, input |-> KeyboardKey("")]

\* the button of an existing binding in an action's row
ClickBinding(action, input) ==
    [kind |-> "Binding", action |-> action, input |-> input]

\* NewKeyBindingEditorWindow; ebiten.Key(0) is KeyA
NewKeyBindingEditorWindow ==
    [listening |-> FALSE, selectedAction |-> "ActionMoveUp",
     rebindMode |-> FALSE, oldKey |-> "KeyA", showGamepad |-> FALSE,
     click |-> NoClick, op |-> "none"]

\* the keys the editor's user presses, and their values in ebiten.Key
EditorKeys == {"KeyA", "KeyP"}

KeyCode(key) ==
    CASE key = "KeyA" -> 0
      [] key = "KeyP" -> 15

\* drawKeyboardBindings: what a click on one of its buttons does
drawKeyboardBindings(w, click) ==
    CASE click.kind = "Add" ->
            [w EXCEPT !.listening = TRUE, !.rebindMode = FALSE,
                      !.selectedAction = click.action]
      [] click.kind = "Binding" ->
            [w EXCEPT !.listening = TRUE, !.rebindMode = TRUE,
                      !.selectedAction = click.action,
                      !.oldKey = click.input.key]
      [] OTHER -> w

\* the first key of the loop of listenForKeyPress that is pressed
FirstPressed(down) ==
    CHOOSE key \in down : \A other \in down : KeyCode(key) <= KeyCode(other)

\* listenForKeyPress: the window and the manager's bindings after the call
\* (no key of the model is KeyMax)
listenForKeyPress(w, b, down) ==
    IF down = {} THEN [w |-> w, b |-> b]
    ELSE LET key == FirstPressed(down)
             old == KeyboardKey(w.oldKey)
             removed == IF old \in DOMAIN b /\ b[old] = w.selectedAction
                        THEN Unbind(b, old) ELSE b
         IN  [w |-> [w EXCEPT !.listening = FALSE, !.rebindMode = FALSE],
              b |-> IF KeyCode(key) > 0
                    THEN IF w.rebindMode
                         THEN Bind(removed, KeyboardKey(key), w.selectedAction)
                         ELSE Bind(b, KeyboardKey(key), w.selectedAction)
                    ELSE b]

\* KeyBindingEditorWindow.Draw of the open window with the tab shown, the
\* button clicked in this frame and the keys down
EditorDraw(w, b, gamepadTab, click, down) ==
    LET shown == [w EXCEPT !.showGamepad = gamepadTab]
        drawn == IF gamepadTab THEN shown
                 ELSE drawKeyboardBindings(shown, click)
    IN  IF drawn.listening /\ ~drawn.showGamepad
        THEN listenForKeyPress(drawn, b, down)
        ELSE [w |-> drawn, b |-> b]

----------------------------------------------------------------------------
(* debug.Manager *)

\* common.WindowPlayerDebug, WindowInputDebug, WindowBindingEdit,
\* WindowCameraDebug
WindowNames ==
    {"Player Debug", "Input Debug", "Binding Editor", "Camera Debug"}

ToggleActions ==
    {"ActionTogglePlayerDebug", "ActionToggleBindingEditor",
     "ActionToggleInputDebug"}

\* debug.New: enabled, no window
NewDebugManager ==
    [enabled |-> TRUE, windows |-> [name \in {} |-> TRUE], panicked |-> FALSE,
     op |-> "none", pressed |-> {}]

\* Manager.AddWindow of a window with the given name and open flag
AddWindow(m, name, open) ==
    [m EXCEPT !.windows = [n \in (DOMAIN m.windows) \cup {name} |->
                              IF n = name THEN open ELSE m.windows[n]]]

\* Manager.RemoveWindow
RemoveWindow(m, name) ==
    [m EXCEPT !.windows = [n \in (DOMAIN m.windows) \ {name} |-> m.windows[n]]]

\* m.GetWindow(name).Toggle(): GetWindow returns the nil Window for a name
\* that is not in the map, and the method call on it panics
toggleWindow(m, name) ==
    IF m.panicked THEN m
    ELSE IF name \in DOMAIN m.windows
    THEN [m EXCEPT !.windows[name] = ~m.windows[name]]
    ELSE [m EXCEPT !.panicked = TRUE]

\* Manager.Update when the actions in pressed are just pressed
debugUpdate(m, pressed) ==
    IF ~m.enabled THEN m
    ELSE LET afterPlayer ==
                 IF "ActionTogglePlayerDebug" \in pressed
                 THEN toggleWindow(m, "Player Debug") ELSE m
             afterEditor ==
                 IF "ActionToggleBindingEditor" \in pressed
                 THEN toggleWindow(afterPlayer, "Binding Editor")
                 ELSE afterPlayer
         IN  IF "ActionToggleInputDebug" \in pressed
             THEN toggleWindow(afterEditor, "Input Debug")
             ELSE afterEditor

\* no game of src/main.go is running, a new input manager, editor and debug
\* manager
InitExt ==
    /\ loop = StartLoop
    /\ device = NewDevice
    /\ swarm = [enemies |-> <<>>, pairs |-> <<>>, op |-> "none"]
    /\ editor = NewKeyBindingEditorWindow
    /\ debugManager = NewDebugManager

\* a camera that is not used
InitLib ==
    /\ InitAngle
    /\ camera = NewWithConfig(Nil(Rectangle(0, 0, 0, 0)))
    /\ cameraCall = NoCameraCall
    /\ InitExt

----------------------------------------------------------------------------
(* SpecMove: GetMovementVector on every device state *)

\* the keys of the four directional actions
MoveKeys ==
    {"KeyW", "KeyS", "KeyA", "KeyD", "KeyUp", "KeyDown", "KeyLeft", "KeyRight"}

\* left stick readings: at rest, inside the deadzone, half and full deflection,
\* both axes at their limit
StickReadings ==
    {<<0, 0>>, <<6, 8>>, <<36, 48>>, <<60, 0>>, <<0, -100>>, <<100, 100>>}

NoVector == [X |-> 0, Y |-> 0, r |-> 0]

InitMoveIdle ==
    /\ gamepadIDs = <<>>
    /\ stickLeft = <<0, 0>>
    /\ moveVec = NoVector

InitMove ==
    /\ bindings = setupDefaultBindings
    /\ keysDown \in SUBSET MoveKeys
    /\ keysPrev = {}
    /\ edits = 0
    /\ lastCall = NoCall
    /\ gamepadIDs \in {<<>>, <<0>>}
    /\ stickLeft \in (IF gamepadIDs = <<>> THEN {<<0, 0>>} ELSE StickReadings)
    /\ moveVec = NoVector

CallGetMovementVector ==
    /\ moveVec = NoVector
    /\ moveVec' = GetMovementVector
    /\ UNCHANGED <<inputVars, gamepadIDs, stickLeft, playerVars, libVars>>

NextMove == CallGetMovementVector

\* every device state, under a fresh player
InitMoveAll == InitMove /\ InitPlayer /\ InitLib

SpecMove == InitMoveAll /\ [][NextMove]_vars

----------------------------------------------------------------------------
(* SpecInput: device frames and binding edits on one Manager *)

\* physical keys and buttons the frames of SpecInput press
InputKeys == {"KeyW", "KeyUp", "KeyT", "KeyControl", "KeyP"}

\* inputs and actions the Bind / Unbind / Rebind calls of SpecInput name
EditIDs ==
    {KeyboardKey("KeyW"), KeyboardKey("KeyT"), ComboKey("KeyControl", "KeyP")}

EditActions ==
    {"ActionMoveUp", "ActionInteract"}

InitInput ==
    /\ bindings = setupDefaultBindings
    /\ keysDown = {}
    /\ keysPrev = {}
    /\ edits = 0
    /\ lastCall = NoCall

\* One tick of the device state: what was down becomes the previous frame.
PollInput(universe, maxHeld) ==
    \E down \in SUBSET universe :
        /\ Cardinality(down) <= maxHeld
        /\ keysPrev' = keysDown
        /\ keysDown' = down
        /\ UNCHANGED <<bindings, edits, lastCall>>

CallBind ==
    \E input \in EditIDs, action \in EditActions :
        /\ edits < MaxEdits
        /\ bindings' = Bind(bindings, input, action)
        /\ edits' = edits + 1
        /\ lastCall' = [op |-> "Bind", old |-> input, new |-> input,
                        action |-> action, before |-> bindings]
        /\ UNCHANGED <<keysDown, keysPrev>>

CallUnbind ==
    \E input \in EditIDs :
        /\ edits < MaxEdits
        /\ bindings' = Unbind(bindings, input)
        /\ edits' = edits + 1
        /\ lastCall' = [op |-> "Unbind", old |-> input, new |-> input,
                        action |-> Lookup(bindings, input), before |-> bindings]
        /\ UNCHANGED <<keysDown, keysPrev>>

CallRebind ==
    \E oldInput \in EditIDs, newInput \in EditIDs :
        /\ edits < MaxEdits
        /\ bindings' = Rebind(bindings, oldInput, newInput)
        /\ edits' = edits + 1
        /\ lastCall' = [op |-> "Rebind", old |-> oldInput, new |-> newInput,
                        action |-> Lookup(bindings, oldInput), before |-> bindings]
        /\ UNCHANGED <<keysDown, keysPrev>>

InputFrame == PollInput(InputKeys, MaxHeld)

NextInput ==
    /\ InputFrame \/ CallBind \/ CallUnbind \/ CallRebind
    /\ UNCHANGED <<moveVars, playerVars, libVars>>

\* a fresh Manager, no gamepad, a fresh player
InitInputAll == InitInput /\ InitMoveIdle /\ InitPlayer /\ InitLib

SpecInput == InitInputAll /\ [][NextInput]_vars

----------------------------------------------------------------------------
(* SpecAim: frames that vary the target list, the devices at rest *)

InitAim ==
    /\ InitInput
    /\ gamepadIDs = <<0>>
    /\ stickLeft = <<0, 0>>
    /\ moveVec = NoVector
    /\ InitPlayer
    /\ InitLib

AimFrame ==
    \E targets \in TargetLists : PlayerUpdate({}, <<0, 0>>, <<0, 0>>, targets)

CallSetAutoAim == \E enabled \in BOOLEAN : SetAutoAim(enabled)

NextAim == AimFrame \/ CallSetAutoAim

SpecAim == InitAim /\ [][NextAim]_vars

----------------------------------------------------------------------------
(* SpecPlayer: frames that vary the keys, the right stick and the mouse *)

\* KeySpace and the gamepad's bottom face button are bound to ActionAutoAttack
PlayerKeys == {"KeySpace", "PadRightBottom"}

\* at rest, pushed up
RightStickReadings == {<<0, 0>>, <<0, -100>>}

\* the initial cursor (below the player), left of the player
MousePositions == {<<0, 0>>, <<-200, -5>>}

\* no target, a target in range
PlayerTargetLists == {<<>>, <<Target(2, 0, 150, 40, 9)>>}

PlayerFrame ==
    \E down \in SUBSET PlayerKeys, stick \in RightStickReadings,
       mouse \in MousePositions, targets \in PlayerTargetLists :
        PlayerUpdate(down, stick, mouse, targets)

NextPlayer == PlayerFrame \/ CallSetAutoAim

SpecPlayer == InitAim /\ [][NextPlayer]_vars

----------------------------------------------------------------------------
(* SpecDrive: calls of updateMovement that vary the keys and the left stick *)

\* right and left
DriveKeys == {"KeyD", "KeyA"}

\* at rest; right, giving m = (0.25, 0) and m = (0.5, 0); right and down,
\* giving m = (0.3, 0.4)
DriveSticks == {<<0, 0>>, <<40, 0>>, <<60, 0>>, <<36, 48>>}

\* The devices move to the state (down, stick), then ProcessInput calls
\* updateMovement, which reads GetMovementVector and sets the velocity.
CallUpdateMovement(down, stick) ==
    /\ keysPrev' = keysDown
    /\ keysDown' = down
    /\ stickLeft' = stick
    /\ UNCHANGED <<bindings, edits, lastCall, gamepadIDs, moveVec,
                   stickRight, mouseWorld, playerInput, libVars>>
    /\ \E m \in {GetMovementVector'} :
           /\ MoveIsExact(entity.Velocity, m)
           /\ entity' = [entity EXCEPT
                             !.Velocity = updateMovement(entity.Velocity, m)]
           /\ drive' = [move |-> m,
                        held |-> IF drive.held > 0 /\ drive.move = m
                                 THEN (IF drive.held < MaxHold
                                       THEN drive.held + 1 ELSE MaxHold)
                                 ELSE 1]
    /\ lastTick' = [op |-> "updateMovement", mode |-> "none", closest |-> 0]

DriveTick ==
    \E down \in SUBSET DriveKeys, stick \in DriveSticks :
        CallUpdateMovement(down, stick)

NextDrive == DriveTick

SpecDrive == InitAim /\ [][NextDrive]_vars

----------------------------------------------------------------------------
(* SpecAngle: calls of NormalizeAngle *)

\* the arguments: every sixteenth of a half turn within MaxTurns full turns
\* of 0, among them Pi, -Pi and the other odd multiples of Pi
AngleInputs == {k * (Pi \div 16) : k \in (-32 * MaxTurns)..(32 * MaxTurns)}

CallNormalizeAngle ==
    /\ \E angle \in AngleInputs :
           angleCall' = [angle |-> angle, result |-> NormalizeAngle(angle),
                         op |-> "NormalizeAngle"]
    /\ UNCHANGED <<inputVars, moveVars, playerVars, camera, cameraCall, extVars>>

NextAngle == CallNormalizeAngle

SpecAngle == InitAim /\ [][NextAngle]_vars

----------------------------------------------------------------------------
(* SpecCamera: calls on a camera with and without world bounds *)

\* no bounds; a world that holds the viewport at zoom 1 and at zoom 0.5 is as
\* wide as the viewport and less high; a world of size zero
BoundsChoices ==
    {Nil(Rectangle(0, 0, 0, 0)),
     Ptr(Rectangle(0, 0, 3200 * Scale, 1000 * Scale)),
     Ptr(Rectangle(500 * Scale, 500 * Scale, 0, 0))}

\* nothing to follow; a point inside the world; a point outside it
CameraTargets ==
    {Nil(Vector2(0, 0)), Ptr(Vector2(1000 * Scale, 2000 * Scale)),
     Ptr(Vector2(-500 * Scale, 4000 * Scale))}

CameraCenters ==
    {Vector2(0, 0), Vector2(1600 * Scale, 1500 * Scale),
     Vector2(3100 * Scale, -200 * Scale)}

\* negative, zero, the floor 0.1, 0.5, 1
ZoomInputs == {-Scale, 0, MinZoom, Scale \div 2, Scale}

\* no turn, a quarter turn, a half turn
RotationInputs == {0, Pi \div 2, Pi}

InitCamera ==
    /\ InitInput
    /\ InitMoveIdle
    /\ InitPlayer
    /\ InitAngle
    /\ camera \in {NewWithConfig(bounds) : bounds \in BoundsChoices}
    /\ cameraCall = NoCameraCall
    /\ InitExt

CallUpdate ==
    /\ UpdateIsExact(camera)
    /\ camera' = CameraUpdate(camera)
    /\ cameraCall' = [op |-> "Update", zoom |-> 0]

CallSetTarget ==
    \E target \in CameraTargets :
        /\ camera' = SetTarget(camera, target)
        /\ cameraCall' = [op |-> "SetTarget", zoom |-> 0]

CallSetCenter ==
    \E pos \in CameraCenters :
        /\ camera' = SetCenter(camera, pos)
        /\ cameraCall' = [op |-> "SetCenter", zoom |-> 0]

CallSetZoom ==
    \E zoom \in ZoomInputs :
        /\ camera' = SetZoom(camera, zoom)
        /\ cameraCall' = [op |-> "SetZoom", zoom |-> zoom]

CallSetRotation ==
    \E radians \in RotationInputs :
        /\ camera' = SetRotation(camera, radians)
        /\ cameraCall' = [op |-> "SetRotation", zoom |-> 0]

NextCamera ==
    /\ CallUpdate \/ CallSetTarget \/ CallSetCenter \/ CallSetZoom
          \/ CallSetRotation
    /\ UNCHANGED <<inputVars, moveVars, playerVars, angleCall, extVars>>

SpecCamera == InitCamera /\ [][NextCamera]_vars

----------------------------------------------------------------------------
(* SpecWalk: frames in which the movement keys drive the player *)

\* right and left
WalkKeys == {"KeyD", "KeyA"}

\* no target; a target straight to the right of the start, 3 beyond the
\* auto-aim range
WalkTargetLists == {<<>>, <<Target(1, 403, 0, 40, 1)>>}

\* Player.Update with the movement keys down, the right stick and the mouse
\* at rest
WalkFrame ==
    \E down \in SUBSET WalkKeys, targets \in WalkTargetLists :
        /\ Abs(entity.Position.X + entity.Velocity.X) <= MaxRun * Scale
        /\ PlayerUpdate(down, <<0, 0>>, <<0, 0>>, targets)

NextWalk == WalkFrame

SpecWalk == InitAim /\ [][NextWalk]_vars

----------------------------------------------------------------------------
(* SpecGame: frames of Game.Update, the camera following the player *)

\* main: the camera is centred where the player starts and follows
\* &player.Position; the model keeps the pointee's value in target.at
InitGame ==
    /\ InitInput
    /\ gamepadIDs = <<0>>
    /\ stickLeft = <<0, 0>>
    /\ moveVec = NoVector
    /\ InitPlayer
    /\ InitAngle
    /\ camera = SetTarget(SetCenter(NewWithConfig(Nil(Rectangle(0, 0, 0, 0))),
                                    InitialPos),
                          Ptr(InitialPos))
    /\ cameraCall = NoCameraCall
    /\ InitExt

\* Game.Update: the input manager's update, camera.Update(), which reads
\* the player's position through its target pointer, then the scene's
\* Update, which updates the player
GameUpdate(down) ==
    /\ Abs(entity.Position.X + entity.Velocity.X) <= MaxRun * Scale
    /\ UpdateIsExact(SetTarget(camera, Ptr(entity.Position)))
    /\ PlayerStep(down, <<0, 0>>, <<0, 0>>, <<>>)
    /\ \E updated \in {CameraUpdate(SetTarget(camera, Ptr(entity.Position)))} :
           camera' = SetTarget(updated, Ptr(entity'.Position))
    /\ cameraCall' = [op |-> "Update", zoom |-> 0]
    /\ UNCHANGED <<angleCall, extVars>>

GameFrame == \E down \in SUBSET WalkKeys : GameUpdate(down)

NextGame == GameFrame

SpecGame == InitGame /\ [][NextGame]_vars

----------------------------------------------------------------------------
(* SpecDevice: Manager.Update under changing keys, buttons, stick and mouse *)

\* a keyboard key and a gamepad button
DeviceKeys == {"KeyW", "PadRightBottom"}

\* at rest, inside the deadzone, beyond it
DeviceSticks == {<<0, 0>>, <<6, 8>>, <<60, 0>>}

CursorPositions == {<<0, 0>>, <<5, 7>>}

\* The devices move to (ids, down, stick, cursor), then Manager.Update runs.
ManagerUpdate(ids, down, stick, cursor) ==
    /\ ids = <<>> => (stick = <<0, 0>> /\ down \cap PadButtons = {})
    /\ keysPrev' = keysDown
    /\ keysDown' = down
    /\ gamepadIDs' = ids
    /\ stickLeft' = stick
    /\ device' = [updateGamepadState(device, ids, down, stick, cursor)
                      EXCEPT !.cursor = cursor, !.op = "Update"]
    /\ UNCHANGED <<bindings, edits, lastCall, moveVec, playerVars, angleCall,
                   camera, cameraCall, loop, swarm, editor, debugManager>>

CallManagerUpdate ==
    \E ids \in {<<>>, <<0>>}, down \in SUBSET DeviceKeys,
       stick \in DeviceSticks, cursor \in CursorPositions :
        ManagerUpdate(ids, down, stick, cursor)

NextDevice == CallManagerUpdate

SpecDevice == InitAim /\ [][NextDevice]_vars

----------------------------------------------------------------------------
(* SpecSwarm: resolveCollisions on every placement of the enemies *)

InitSwarm ==
    /\ InitInput
    /\ gamepadIDs = <<0>>
    /\ stickLeft = <<0, 0>>
    /\ moveVec = NoVector
    /\ InitPlayer
    /\ InitAngle
    /\ camera = NewWithConfig(Nil(Rectangle(0, 0, 0, 0)))
    /\ cameraCall = NoCameraCall
    /\ loop = StartLoop
    /\ device = NewDevice
    /\ editor = NewKeyBindingEditorWindow
    /\ debugManager = NewDebugManager
    /\ swarm \in {[enemies |-> enemies, pairs |-> <<>>, op |-> "none"] :
                      enemies \in [1..MaxEnemies -> EnemyPositions]}

CallResolveCollisions ==
    /\ \E resolved \in {resolveCollisions(swarm.enemies)} :
           /\ resolved.exact
           /\ swarm' = [enemies |-> resolved.enemies, pairs |-> resolved.pairs,
                        op |-> "resolveCollisions"]
    /\ UNCHANGED <<inputVars, moveVars, playerVars, angleCall, camera,
                   cameraCall, loop, device, editor, debugManager>>

NextSwarm == CallResolveCollisions

SpecSwarm == InitSwarm /\ [][NextSwarm]_vars

----------------------------------------------------------------------------
(* SpecEditor: frames of the key binding editor *)

\* the rows of the editor the user works on
EditorActions == {"ActionMoveLeft", "ActionTogglePlayerDebug"}

\* the buttons drawKeyboardBindings shows for these rows
EditorClicks ==
    {NoClick}
    \cup {ClickAdd(action) : action \in EditorActions}
    \cup {ClickBinding(bindings[input], input) :
              input \in {i \in DOMAIN bindings :
                            /\ bindings[i] \in EditorActions
                            /\ i.kind \in {"KeyboardKey", "ComboKey"}}}

\* The keys move to down, the user clicks, then the window is drawn.
DrawEditor(gamepadTab, click, down) ==
    /\ keysPrev' = keysDown
    /\ keysDown' = down
    /\ \E drawn \in {EditorDraw(editor, bindings, gamepadTab, click, down)} :
           /\ bindings' = drawn.b
           /\ editor' = [drawn.w EXCEPT
                             !.click = IF gamepadTab THEN NoClick ELSE click,
                             !.op = "Draw"]
    /\ UNCHANGED <<edits, lastCall, moveVars, playerVars, angleCall, camera,
                   cameraCall, loop, device, swarm, debugManager>>

EditorFrame ==
    \E gamepadTab \in BOOLEAN, click \in EditorClicks,
       down \in SUBSET EditorKeys :
        DrawEditor(gamepadTab, click, down)

NextEditor == EditorFrame

SpecEditor == InitAim /\ [][NextEditor]_vars

----------------------------------------------------------------------------
(* SpecDebug: the debug manager, windows added and removed *)

restOfDebug ==
    <<inputVars, moveVars, playerVars, angleCall, camera, cameraCall, loop,
      device, swarm, editor>>

CallAddWindow ==
    /\ ~debugManager.panicked
    /\ \E name \in WindowNames, open \in BOOLEAN :
           debugManager' = [AddWindow(debugManager, name, open)
                               EXCEPT !.op = "AddWindow", !.pressed = {}]
    /\ UNCHANGED restOfDebug

CallRemoveWindow ==
    /\ ~debugManager.panicked
    /\ \E name \in WindowNames :
           debugManager' = [RemoveWindow(debugManager, name)
                               EXCEPT !.op = "RemoveWindow", !.pressed = {}]
    /\ UNCHANGED restOfDebug

\* Game.Update: the debug toggle switches the manager on and off
CallToggle ==
    /\ ~debugManager.panicked
    /\ debugManager' = [debugManager EXCEPT !.enabled = ~debugManager.enabled,
                                            !.op = "Toggle", !.pressed = {}]
    /\ UNCHANGED restOfDebug

CallDebugUpdate ==
    /\ ~debugManager.panicked
    /\ \E pressed \in SUBSET ToggleActions :
           debugManager' = [debugUpdate(debugManager, pressed)
                               EXCEPT !.op = "Update", !.pressed = pressed]
    /\ UNCHANGED restOfDebug

NextDebug ==
    CallAddWindow \/ CallRemoveWindow \/ CallToggle \/ CallDebugUpdate

SpecDebug == InitAim /\ [][NextDebug]_vars

----------------------------------------------------------------------------
(* SpecLoop: the logic goroutine and the render loop of src/main.go *)

restOfLoop ==
    <<inputVars, moveVars, playerVars, angleCall, camera, cameraCall, device,
      swarm, editor, debugManager>>

GameLoopInit ==
    /\ loop.logic = "init"
    /\ loop' = gameLoopInit(loop)
    /\ UNCHANGED restOfLoop

GameLoopMovePlayer ==
    /\ loop.logic = "movePlayer"
    /\ \E dx \in {-1, 0, 1} :
           /\ Abs(loop.player + dx) <= MaxWalk
           /\ loop' = gameLoopMovePlayer(loop, dx)
    /\ UNCHANGED restOfLoop

GameLoopUpdateEnemies ==
    /\ loop.logic = "updateEnemies"
    /\ loop' = gameLoopUpdateEnemies(loop)
    /\ UNCHANGED restOfLoop

SendGameState ==
    /\ loop.logic = "send"
    /\ loop.render = "receive"
    /\ loop' = sendGameState(loop)
    /\ UNCHANGED restOfLoop

MainStore ==
    /\ loop.render = "store"
    /\ loop' = mainStore(loop)
    /\ UNCHANGED restOfLoop

MainDraw ==
    /\ loop.render = "draw"
    /\ loop' = mainDraw(loop)
    /\ UNCHANGED restOfLoop

NextLoop ==
    \/ GameLoopInit \/ GameLoopMovePlayer \/ GameLoopUpdateEnemies
    \/ SendGameState \/ MainStore \/ MainDraw

SpecLoop == InitAim /\ [][NextLoop]_vars

----------------------------------------------------------------------------
(* Properties of the input manager (SpecInput) *)

\* the physical state of an input in a given set of pressed keys and buttons
ActiveIn(id, down) ==
    IF id.kind = "ComboKey" THEN id.mod \in down /\ id.key \in down
    ELSE id.key \in down

BoundTo(action) == {id \in DOMAIN bindings : bindings[id] = action}

\* the action was active in the previous frame through one of its bound inputs
WasPressed(action) == \E id \in BoundTo(action) : ActiveIn(id, keysPrev)

\* C6: JustPressed(action) is true exactly when no input bound to the action
\* was active in the previous frame and at least one is active in this frame.
C6_JustPressedIsActionEdge ==
    \A a \in Actions :
        JustPressed(a) <=> (~WasPressed(a) /\ IsPressed(a))

\* C7: JustReleased(action) is true only in a frame where the action went from
\* active to inactive, so it implies that the action is not pressed.
C7_JustReleasedIsActionEdge ==
    \A a \in Actions :
        JustReleased(a) => (WasPressed(a) /\ ~IsPressed(a))

RebindOfBound ==
    /\ lastCall.op = "Rebind"
    /\ lastCall.old \in DOMAIN lastCall.before

RebindMoved ==
    LET K1 == lastCall.old
        K2 == lastCall.new
        A  == lastCall.before[K1]
        others == ((DOMAIN lastCall.before) \cup (DOMAIN bindings)) \ {K1, K2}
    IN  /\ K2 \in DOMAIN bindings
        /\ bindings[K2] = A
        /\ K1 \notin DOMAIN bindings
        /\ \A i \in others :
              /\ i \in DOMAIN lastCall.before
              /\ i \in DOMAIN bindings
              /\ bindings[i] = lastCall.before[i]
        /\ ActiveIn(K2, keysDown) => IsPressed(A)
        /\ (/\ ActiveIn(K1, keysDown)
            /\ ~ActiveIn(K2, keysDown)
            /\ \A i \in others : lastCall.before[i] = A => ~ActiveIn(i, keysDown))
           => ~IsPressed(A)

\* C9 as stated: after Rebind(K1, K2) with K1 bound to A, K2 is bound to A, K1
\* has no binding, IsPressed(A) follows K2 and not K1, other inputs keep theirs.
C9_RebindAsStated == RebindOfBound => RebindMoved

\* C9 amended: the same for K2 different from K1 (Rebind(K, K) leaves K bound).
C9_RebindDistinct ==
    (RebindOfBound /\ lastCall.old # lastCall.new) => RebindMoved

\* K1 was rebound to another input K2; K2 is held and K1 is not
C9_Witness ==
    /\ RebindOfBound
    /\ lastCall.old # lastCall.new
    /\ ActiveIn(lastCall.new, keysDown)
    /\ ~ActiveIn(lastCall.old, keysDown)
    /\ IsPressed(lastCall.before[lastCall.old])

\* C30: Rebind(old, new) with old not bound leaves the binding map as it
\* was; in particular new is not bound to any action by the call.
C30_RebindOfUnboundIsNoOp ==
    (lastCall.op = "Rebind" /\ lastCall.old \notin DOMAIN lastCall.before)
        => bindings = lastCall.before

----------------------------------------------------------------------------
(* Properties of the movement vector (SpecMove) *)

\* squared magnitude of a Surd vector times its radicand, in Scale^2 units
MagSqTimesR(v) == v.X * v.X + v.Y * v.Y

Sign(x) == IF x > 0 THEN 1 ELSE IF x < 0 THEN -1 ELSE 0

\* the digital axes as the pressed keys give them
KeyAxisX ==
    (IF {"KeyD", "KeyRight"} \cap keysDown # {} THEN 1 ELSE 0)
    - (IF {"KeyA", "KeyLeft"} \cap keysDown # {} THEN 1 ELSE 0)

KeyAxisY ==
    (IF {"KeyS", "KeyDown"} \cap keysDown # {} THEN 1 ELSE 0)
    - (IF {"KeyW", "KeyUp"} \cap keysDown # {} THEN 1 ELSE 0)

StickAtRest == gamepadIDs = <<>> \/ stickLeft = <<0, 0>>

\* C10: without stick deflection the movement vector has magnitude exactly 0
\* or 1: an axis unit vector when one axis is non-zero, the diagonal with
\* components of magnitude 1/sqrt(2) when both are, (0,0) when both cancel.
C10_DigitalUnitOrZero ==
    (moveVec # NoVector /\ StickAtRest) =>
        /\ Sign(moveVec.X) = KeyAxisX
        /\ Sign(moveVec.Y) = KeyAxisY
        /\ MagSqTimesR(moveVec) \in {0, moveVec.r * Scale * Scale}
        /\ (KeyAxisX # 0 /\ KeyAxisY # 0) =>
              /\ Abs(moveVec.X) = Abs(moveVec.Y)
              /\ 2 * moveVec.X * moveVec.X = moveVec.r * Scale * Scale
        /\ (KeyAxisX = 0 /\ KeyAxisY = 0) => moveVec = Plain(0, 0)
        /\ (KeyAxisX = 0) # (KeyAxisY = 0) =>
              moveVec = Plain(KeyAxisX * Scale, KeyAxisY * Scale)

\* up and right are held and the vector returned is the normalized diagonal
C10_Witness ==
    /\ moveVec # NoVector
    /\ StickAtRest
    /\ KeyAxisX = 1
    /\ KeyAxisY = -1
    /\ moveVec.r = 2 * Scale * Scale

\* one of the four directional actions is active
DirectionalActive ==
    \E action \in {"ActionMoveUp", "ActionMoveDown", "ActionMoveLeft",
                    "ActionMoveRight"} : IsPressed(action)

\* C25: whenever at least one of the four directional actions is pressed the
\* left stick is ignored: the movement vector is the one the digital inputs
\* give; the stick contributes only when no directional action is active.
C25_StickOnlyWithoutDigital ==
    (moveVec # NoVector /\ DirectionalActive)
        => moveVec = normalizeVector(KeyAxisX * Scale, KeyAxisY * Scale)

\* C11: for every combination of digital inputs and every left-stick reading
\* with both axes in [-1, 1] the movement vector has magnitude at most 1.
C11_MagnitudeAtMostOne ==
    (moveVec # NoVector /\ Abs(stickLeft[1]) <= Scale /\ Abs(stickLeft[2]) <= Scale)
        => MagSqTimesR(moveVec) <= moveVec.r * Scale * Scale

----------------------------------------------------------------------------
(* Properties of the velocity (SpecDrive) *)

IsDriveTick == lastTick'.op = "updateMovement"

\* |m| of a plain movement vector
InputMagnitude(m) == SqrtOfSquare(m.X * m.X + m.Y * m.Y)

\* targetSpeed of updateMovement: maxSpeed * |m|
TargetSpeed(m) == Mul(MaxSpeed, InputMagnitude(m))

\* calls with one input after which the speed has settled at targetSpeed: one
\* call caps a faster velocity, then the velocity turns round from -maxSpeed |m|
\* to +maxSpeed |m| in steps of acceleration |m|
ReachTicks == 1 + (2 * MaxSpeed) \div Acceleration

StopTicks == (MaxSpeed + Deceleration - 1) \div Deceleration

\* C13: a call of updateMovement with no movement input takes exactly
\* deceleration off the speed and keeps the direction, makes the velocity
\* exactly (0, 0) when the speed is at or below deceleration, so the speed
\* never turns negative and the direction never flips; after StopTicks such
\* calls in a row the velocity is (0, 0), and it stays (0, 0).
C13_DeceleratesToRest ==
    [][(IsDriveTick /\ drive'.move = Plain(0, 0))
           => \E old \in {entity.Velocity} :
              \E new \in {entity'.Velocity} :
              \E speed \in {Magnitude(old)} :
                  /\ speed <= Deceleration => new = Vector2(0, 0)
                  /\ speed > Deceleration
                         => /\ MagnitudeSquared(new)
                                   = (speed - Deceleration) * (speed - Deceleration)
                            /\ old.X * new.Y = old.Y * new.X
                            /\ old.X * new.X + old.Y * new.Y > 0
                  /\ drive'.held >= StopTicks => new = Vector2(0, 0)]_vars

\* a velocity off the axes slowed from speed 2.5 to speed 2
C13_Witness ==
    /\ drive.move = Plain(0, 0)
    /\ drive.held = 1
    /\ entity.Velocity = Vector2(120, 160)

----------------------------------------------------------------------------
(* Properties of the aim (SpecAim, SpecPlayer) *)

\* a step is a frame of Player.Update
IsTick == lastTick'.op = "Update"

\* the list handed to the frame and the position updateAiming reads
TickTargets == playerInput'.currentTargets

TickPos == entity'.Position

TickDistSq(i) == MagnitudeSquared(Sub(TickTargets[i].Pos, TickPos))

\* indices of the targets within range, and the nearest ones among them
InRange ==
    {i \in 1..Len(TickTargets) : TickDistSq(i) < AutoAimRange * AutoAimRange}

NearestOf(S) == {i \in S : \A j \in S : TickDistSq(i) <= TickDistSq(j)}

Nearest == NearestOf(InRange)

Bearing(i) ==
    Atan2(TickTargets[i].Pos.Y - TickPos.Y, TickTargets[i].Pos.X - TickPos.X)

\* the frame resolves the aim in the auto-aim state with a non-empty list
AutoTick == IsTick /\ playerInput.autoAim /\ Len(TickTargets) > 0

\* the turn toward bearing b as the claim writes it
Turned(r, b) ==
    NormalizeAngle(r + RoundDiv(NormalizeAngle(b - r) * RotationSpeed, Scale))

AngleTo(b, r) == Abs(NormalizeAngle(b - r))

\* C1: in a tick with auto-aim on and a non-empty list the rotation turns
\* toward a target of minimum squared distance among those whose squared
\* distance is below the squared range, whatever the priorities, radii,
\* velocities and ids are; with no target in range the rotation is unchanged.
C1_NearestInRange ==
    [][AutoTick =>
          \E inRange \in {InRange} :
          \E aimed \in {lastTick'.closest} :
              IF inRange = {}
              THEN /\ aimed = 0
                   /\ entity'.Rotation = entity.Rotation
              ELSE /\ aimed \in NearestOf(inRange)
                   /\ entity'.Rotation = Turned(entity.Rotation, Bearing(aimed))]_vars

\* the far target of priority 9 is listed before the near one of priority 1,
\* and the frame aimed at the near one from a rotation off its bearing
C1_Witness ==
    /\ lastTick.op = "Update"
    /\ lastTick.mode = "auto"
    /\ Len(playerInput.currentTargets) = 2
    /\ playerInput.currentTargets[1].ID = 2
    /\ playerInput.currentTargets[2].ID = 1
    /\ lastTick.closest = 2
    /\ entity.Rotation < 0
    /\ entity.Rotation # -(Pi \div 4)

\* C2: in a tick with auto-aim on and an empty target list the rotation is
\* unchanged, whatever the mouse and the right stick do.
C2_EmptyListFreezesRotation ==
    [][(IsTick /\ playerInput.autoAim /\ TickTargets = <<>>) =>
          entity'.Rotation = entity.Rotation]_vars

\* C3: in a tick with auto-aim on whose nearest target in range is at the
\* player's position the rotation is unchanged.
C3_TargetOnPlayerKeepsRotation ==
    [][(AutoTick /\ \E i \in InRange : TickDistSq(i) = 0) =>
          entity'.Rotation = entity.Rotation]_vars

\* the first of the targets S in list order, the one the scan keeps
FirstOf(S) == CHOOSE i \in S : \A j \in S : i <= j

C5_FlipsOnActionEdgeOnly ==
    [][IsTick =>
          playerInput'.autoAim =
              (IF ~IsPressed("ActionAutoAttack") /\ IsPressed("ActionAutoAttack")'
               THEN ~playerInput.autoAim ELSE playerInput.autoAim)]_vars

----------------------------------------------------------------------------
(* Properties of the aim vector (SpecPlayer) *)

\* the vector the last GetAimVector call returned: every branch of
\* GetAimVector returns what it leaves in lastAimDx, lastAimDy
LastAim(p) == <<p.lastAimDx, p.lastAimDy>>

\* C14: in a frame where the right stick is inside the deadzone and the mouse
\* world position is the one of the previous frame, GetAimVector returns the
\* vector it returned in the previous frame.
C14_StickyAim ==
    [][(/\ IsTick
        /\ lastTick.op # "none"
        /\ ~GetGamepadAim(gamepadIDs, stickRight').ok
        /\ mouseWorld' = mouseWorld)
           => LastAim(playerInput') = LastAim(playerInput)]_vars

\* PlayerInput.GetAimDirection, which Player.GetAimDirection returns
GetAimDirection(p, ids, stick, mouse, entityPos) ==
    LET aim == GetAimVector(p, ids, stick, mouse, entityPos)
    IN  Vector2(aim.dx, aim.dy)

\* C15: in every reachable state the player's GetAimDirection returns a
\* vector of magnitude 1.
C15_UnitAimDirection ==
    MagnitudeSquared(GetAimDirection(playerInput, gamepadIDs, stickRight,
                                     mouseWorld, entity.Position))
        = Scale * Scale

----------------------------------------------------------------------------
(* Properties of NormalizeAngle (SpecAngle) *)

\* C16: NormalizeAngle(a) is greater than -Pi and at most Pi, and differs
\* from a by a whole number of full turns.
C16_RangeOpenAtMinusPi ==
    angleCall.op = "NormalizeAngle"
        => /\ angleCall.result > -Pi
           /\ angleCall.result <= Pi
           /\ (angleCall.angle - angleCall.result) % (2 * Pi) = 0

----------------------------------------------------------------------------
(* Properties of the camera (SpecCamera) *)

\* world points and screen points handed to the transforms
WorldPoints ==
    {Vector2(0, 0), Vector2(120 * Scale, -250 * Scale),
     Vector2(1600 * Scale, 1500 * Scale)}

ScreenPoints ==
    {Vector2(0, 0), Vector2(800 * Scale, 450 * Scale),
     Vector2(1230 * Scale, 45 * Scale)}

\* C17: whatever calls the camera has received, ScreenToWorld undoes
\* WorldToScreen on every world point and WorldToScreen undoes ScreenToWorld
\* on every screen point.
C17_RoundTrip ==
    TransformIsExact(camera)
        => /\ \A p \in WorldPoints :
                  ApplyIsExact(GetTransform(camera), p)
                      => ScreenToWorld(camera, WorldToScreen(camera, p)) = p
           /\ \A sp \in ScreenPoints :
                  (/\ ApplyIsExact(InverseTransform(camera), sp)
                   /\ ApplyIsExact(GetTransform(camera),
                                   ScreenToWorld(camera, sp)))
                      => WorldToScreen(camera, ScreenToWorld(camera, sp)) = sp

\* a camera that followed its target, zoomed out and turned by a quarter turn,
\* mapping a world point to another place on the screen and back
C17_Witness ==
    /\ cameraCall.op = "Update"
    /\ camera.target.set
    /\ camera.zoom = Scale \div 2
    /\ camera.rotation = Pi \div 2
    /\ camera.pos # Vector2(0, 0)
    /\ TransformIsExact(camera)
    /\ \E p \in WorldPoints :
           /\ ApplyIsExact(GetTransform(camera), p)
           /\ WorldToScreen(camera, p) # p
           /\ ScreenToWorld(camera, WorldToScreen(camera, p)) = p

\* C18: the zoom is at least 0.1 in every state: a new camera has zoom 1 and
\* SetZoom(z) stores max(0.1, z).
C18_ZoomAtLeastFloor ==
    /\ camera.zoom >= MinZoom
    /\ cameraCall.op = "none" => camera.zoom = Scale
    /\ cameraCall.op = "SetZoom"
           => camera.zoom = MathMax(MinZoom, cameraCall.zoom)

\* SetZoom(-1) on a camera that had zoom 1 stored 0.1
C18_Witness ==
    /\ cameraCall = [op |-> "SetZoom", zoom |-> -Scale]
    /\ camera.zoom = MinZoom
    /\ camera.visibleArea.Size = Vector2(16000 * Scale, 9000 * Scale)

\* on every axis where the viewport is not larger than the bounds, the
\* rectangle GetViewport returns lies within the bounds
ViewportWithinBounds(c) ==
    LET viewport == GetViewport(c)
        bounds == c.bounds.at
    IN  /\ viewport.Size.X <= bounds.Size.X
               => /\ viewport.Pos.X >= bounds.Pos.X
                  /\ viewport.Pos.X + viewport.Size.X
                         <= bounds.Pos.X + bounds.Size.X
        /\ viewport.Size.Y <= bounds.Size.Y
               => /\ viewport.Pos.Y >= bounds.Pos.Y
                  /\ viewport.Pos.Y + viewport.Size.Y
                         <= bounds.Pos.Y + bounds.Size.Y

\* C19: with world bounds configured, after every Update, SetCenter and
\* SetZoom the viewport lies within the bounds on every axis where it is not
\* larger than the bounds.
C19_ViewportInsideBounds ==
    (camera.bounds.set /\ cameraCall.op \in {"Update", "SetCenter", "SetZoom"})
        => ViewportWithinBounds(camera)

\* the viewport of c is wider (axis "X") or higher (axis "Y") than the bounds
ViewportExceeds(c, axis) ==
    IF axis = "X" THEN GetViewport(c).Size.X > c.bounds.at.Size.X
    ELSE GetViewport(c).Size.Y > c.bounds.at.Size.Y

\* the camera position of c is the centre of the bounds on the axis
CentredOnBounds(c, axis) ==
    IF axis = "X"
    THEN 2 * c.pos.X = 2 * c.bounds.at.Pos.X + c.bounds.at.Size.X
    ELSE 2 * c.pos.Y = 2 * c.bounds.at.Pos.Y + c.bounds.at.Size.Y

\* C20: with bounds configured, on an axis where the viewport exceeds the
\* bounds, every call that clamps (SetCenter, Update with a target) leaves the
\* camera on the centre of the bounds, and an Update of a camera that is on
\* the centre leaves it there.
C20_CentredWhenViewportExceeds ==
    [][camera'.bounds.set
           => \A axis \in {"X", "Y"} :
                  ViewportExceeds(camera', axis)
                      => /\ (\/ cameraCall'.op = "SetCenter"
                             \/ cameraCall'.op = "Update" /\ camera.target.set)
                                => CentredOnBounds(camera', axis)
                         /\ (/\ cameraCall'.op = "Update"
                             /\ CentredOnBounds(camera, axis))
                                => CentredOnBounds(camera', axis)]_vars

\* bounds of size zero: an Update towards a target elsewhere ended on them
C20_Witness ==
    /\ cameraCall.op = "Update"
    /\ camera.bounds = Ptr(Rectangle(500 * Scale, 500 * Scale, 0, 0))
    /\ camera.target = Ptr(Vector2(-500 * Scale, 4000 * Scale))
    /\ camera.pos = Vector2(500 * Scale, 500 * Scale)

\* C21: in every state of the camera, from construction on, GetViewport
\* returns the rectangle of size ViewportSize / zoom centred on the camera
\* position.
C21_ViewportIsCurrent ==
    LET viewport == GetViewport(camera)
    IN  /\ viewport.Size.X * camera.zoom = DefaultConfig.ViewportSize.X * Scale
        /\ viewport.Size.Y * camera.zoom = DefaultConfig.ViewportSize.Y * Scale
        /\ 2 * viewport.Pos.X + viewport.Size.X = 2 * camera.pos.X
        /\ 2 * viewport.Pos.Y + viewport.Size.Y = 2 * camera.pos.Y

\* SetCenter((0, 0)) at zoom 1 was clamped to (800, 450) and the viewport
\* followed the clamped position
C21_Witness ==
    /\ cameraCall.op = "SetCenter"
    /\ camera.bounds.set
    /\ camera.zoom = Scale
    /\ camera.pos = Vector2(800 * Scale, 450 * Scale)
    /\ GetViewport(camera) = Rectangle(0, 0, 1600 * Scale, 900 * Scale)

----------------------------------------------------------------------------
(* Properties of the two loops of src/main.go (SpecLoop) *)

\* C22: in no state is the logic loop inside its update, about to write the
\* game state, while the render loop is between its receive and the end of
\* its draw, writing or reading the game state.
C22_UpdateAndDrawExclusive ==
    ~(/\ loop.logic \in {"movePlayer", "updateEnemies"}
      /\ loop.render \in {"store", "draw"})

----------------------------------------------------------------------------
(* Properties of the order within a tick (SpecWalk) *)

\* the index updateAiming would find from the position pos
ClosestSeenFrom(pos) ==
    IF playerInput'.autoAim /\ Len(TickTargets) > 0
    THEN closestFrom(TickTargets, pos, 1, AutoAimRange * AutoAimRange, 0)
    ELSE 0

\* C23: in every tick the position advances by the velocity the tick has
\* just computed from the movement input (position after = position before
\* + velocity after), and the aim resolution of the tick sees the position
\* after the integration.
C23_IntegrationOrder ==
    [][IsTick =>
        /\ entity'.Position = Add(entity.Position, entity'.Velocity)
        /\ lastTick'.closest = ClosestSeenFrom(entity'.Position)]_vars

----------------------------------------------------------------------------
(* Properties of the order within a frame (SpecGame) *)

\* one smoothing step of the camera c towards the position pos
SmoothedTowards(c, pos) == CameraUpdate(SetTarget(c, Ptr(pos))).pos

\* C24: in every frame the camera's Update smooths towards the position the
\* player has at the end of that frame's update.
C24_CameraAfterPlayer ==
    [][(IsTick /\ cameraCall'.op = "Update")
           => camera'.pos = SmoothedTowards(camera, entity'.Position)]_vars

----------------------------------------------------------------------------
(* Properties of the device tracking (SpecDevice) *)

\* what the Update that leads to the next state sees
GamepadSeen ==
    /\ gamepadIDs' # <<>>
    /\ \/ keysDown' \cap PadButtons # {}
       \/ Abs(stickLeft'[1]) >= Deadzone
       \/ Abs(stickLeft'[2]) >= Deadzone

MouseMoved == device'.cursor # <<device.lastMouseX, device.lastMouseY>>

KeyboardKeyDown == keysDown' \ PadButtons # {}

\* C26: after Manager.Update, IsUsingGamepad is true if a gamepad button or
\* a left-stick deflection beyond the deadzone was seen this frame; otherwise
\* false if the mouse moved or a keyboard key is pressed this frame;
\* otherwise it keeps its previous value.
C26_MostRecentDevice ==
    [][device'.op = "Update" =>
          IsUsingGamepad' = (IF GamepadSeen THEN TRUE
                             ELSE IF MouseMoved \/ KeyboardKeyDown THEN FALSE
                             ELSE IsUsingGamepad)]_vars

----------------------------------------------------------------------------
(* Properties of resolveCollisions (SpecSwarm) *)

\* the pair was closer than the collision distance when it was processed
PairOverlapped(pair) ==
    MagnitudeSquared(Sub(pair.before1, pair.before2))
        < CollisionDistance * CollisionDistance

\* both enemies moved by half the overlap each, in opposite directions along
\* the axis that connects them: afterwards they are at the collision
\* distance and their midpoint is where it was
PairSeparated(pair) ==
    LET axis == Sub(pair.before1, pair.before2)
        move1 == Sub(pair.after1, pair.before1)
        move2 == Sub(pair.after2, pair.before2)
    IN  /\ move2 = Vector2(-move1.X, -move1.Y)
        /\ move1.X * axis.Y = move1.Y * axis.X
        /\ MagnitudeSquared(Sub(pair.after1, pair.after2))
               = CollisionDistance * CollisionDistance
        /\ Add(pair.after1, pair.after2) = Add(pair.before1, pair.before2)

PairUnmoved(pair) ==
    pair.after1 = pair.before1 /\ pair.after2 = pair.before2

\* C27: every pair of enemies that is closer than the sum of the collision
\* radii when resolveCollisions processes it is pushed apart by half the
\* overlap each, to exactly that distance and with its midpoint unchanged;
\* a pair at or beyond that distance is not moved.
C27_PairwiseSeparation ==
    swarm.op = "resolveCollisions" =>
        \A k \in DOMAIN swarm.pairs :
            IF PairOverlapped(swarm.pairs[k])
            THEN PairSeparated(swarm.pairs[k])
            ELSE PairUnmoved(swarm.pairs[k])

----------------------------------------------------------------------------
(* Properties of the key binding editor (SpecEditor) *)

\* a Draw of the keyboard tab without a click
IsPlainDraw ==
    editor'.op = "Draw" /\ ~editor'.showGamepad /\ editor'.click = NoClick

\* the binding whose button started the rebind
OldBinding == editor.click.input

\* C28: once the editor is listening, the next key press clears listening
\* and rebindMode and binds the pressed key to the selected action, in rebind
\* mode also removing the binding of the old key; while the editor is not
\* listening, key presses change no binding.
C28_ListenThenBind ==
    [][IsPlainDraw =>
          /\ (editor.listening /\ keysDown' # {}) =>
                 /\ ~editor'.listening
                 /\ ~editor'.rebindMode
                 /\ \E key \in keysDown' :
                        /\ KeyboardKey(key) \in DOMAIN bindings'
                        /\ bindings'[KeyboardKey(key)] = editor.selectedAction
                        /\ (editor.rebindMode /\ editor.click.kind = "Binding")
                               => \/ OldBinding \notin DOMAIN bindings'
                                  \/ OldBinding = KeyboardKey(key)
          /\ ~editor.listening => bindings' = bindings]_vars

----------------------------------------------------------------------------
(* Properties of the debug manager (SpecDebug) *)

\* the window a toggle action opens and closes
WindowOf(action) ==
    CASE action = "ActionTogglePlayerDebug" -> "Player Debug"
      [] action = "ActionToggleBindingEditor" -> "Binding Editor"
      [] action = "ActionToggleInputDebug" -> "Input Debug"

\* C29: Manager.Update never fails when a window-toggle action is just
\* pressed; a toggle whose window is not registered is ignored: the
\* registered windows stay the same, and the open flags change only for
\* registered windows whose toggle was pressed.
C29_ToggleOfMissingWindowIgnored ==
    [][debugManager'.op = "Update" =>
          /\ ~debugManager'.panicked
          /\ DOMAIN debugManager'.windows = DOMAIN debugManager.windows
          /\ \A name \in DOMAIN debugManager.windows :
                 debugManager'.windows[name] =
                     (IF /\ debugManager.enabled
                         /\ \E action \in debugManager'.pressed :
                                WindowOf(action) = name
                      THEN ~debugManager.windows[name]
                      ELSE debugManager.windows[name])]_vars

====
